---- MODULE Spec2Model ----
(***************************************************************************)
(* A model of the hex codec of src/src/lib.rs: the lazy character producer *)
(* BytesToHexChars, encode / encode_upper, Vec<u8>::from_hex (decode),     *)
(* decode_to_slice and the fixed-size array from_hex.                      *)
(*                                                                         *)
(* Bytes (u8) and characters are their code points 0..255; a byte slice,   *)
(* a String and a Vec<u8> are sequences.  Option<T> is a sequence of       *)
(* length 0 (None) or 1 (Some).  A Result is a record with a tag.          *)
(***************************************************************************)
EXTENDS Integers, Sequences, FiniteSets

VARIABLES
    pc,        \* the call in progress, or the call that has returned
    data,      \* the byte slice given to encode / encode_upper / the producer
    text,      \* the String an encode call returned (Some), else None
    hex,       \* the input of decode / decode_to_slice / from_hex
    out,       \* the caller's buffer of decode_to_slice, as it is now
    out0,      \* the same buffer as it was when the call was made
    arrayLen,  \* $len of the [u8; $len] a from_hex call is to produce
    result,    \* what the decoding call returned
    iter,      \* the BytesToHexChars struct
    calls,     \* number of next() calls made on iter
    item,      \* what the last next() returned
    yielded    \* the characters the next() calls have yielded so far

vars == <<pc, data, text, hex, out, out0, arrayLen, result, iter, calls, item, yielded>>

----------------------------------------------------------------------------
(* Bounds of the model *)

MaxLen == 2          \* longest sampled byte slice given to the encoders
MaxTextLen == 4      \* longest sampled text given to the decoders
MaxBufLen == 2       \* longest sampled output buffer / array
MaxExtraCalls == 2   \* next() calls made after the producer is exhausted

U8 == 0..255

RECURSIVE SeqsUpTo(_, _)
SeqsUpTo(S, n) ==
    IF n = 0 THEN {<<>>}
    ELSE LET shorter == SeqsUpTo(S, n - 1)
         IN  shorter \cup {Append(s, x) : s \in {t \in shorter : Len(t) = n - 1}, x \in S}

ByteSample == {0, 1, 9, 10, 15, 16, 171, 255}
\* ' ', '0', '9', 'A', 'F', 'a', 'f', 'g'
CharSample == {32, 48, 57, 65, 70, 97, 102, 103}
BufFill == {0, 170}

\* "foobar", [1,2,3,15,16]
DataVectors ==
    { <<102, 111, 111, 98, 97, 114>>, <<1, 2, 3, 15, 16>> }

\* "66ag", "666f 6f62617", "666f6f626172", "666F6F626172", "666f6f6261721", "f9B4Ca"
TextVectors ==
    { <<54, 54, 97, 103>>,
      <<54, 54, 54, 102, 32, 54, 102, 54, 50, 54, 49, 55>>,
      <<54, 54, 54, 102, 54, 102, 54, 50, 54, 49, 55, 50>>,
      <<54, 54, 54, 70, 54, 70, 54, 50, 54, 49, 55, 50>>,
      <<54, 54, 54, 102, 54, 102, 54, 50, 54, 49, 55, 50, 49>>,
      <<102, 57, 66, 52, 67, 97>> }

DataInputs ==
    SeqsUpTo(ByteSample, MaxLen) \cup {<<b>> : b \in U8} \cup DataVectors

TextInputs ==
    SeqsUpTo(CharSample, MaxTextLen)
        \cup {<<c, d>> : c \in U8, d \in CharSample}
        \cup {<<d, c>> : c \in U8, d \in CharSample}
        \cup TextVectors

BufInputs == SeqsUpTo(BufFill, MaxBufLen) \cup {<<170, 170, 170, 170, 170, 170>>}

ArrayLens == (1..MaxBufLen) \cup {5, 6}

----------------------------------------------------------------------------
(* Option and Result *)

None == <<>>
Some(x) == <<x>>

Ok(v) == [tag |-> "Ok", value |-> v, c |-> 0, index |-> 0]
InvalidHexCharacter(ch, idx) ==
    [tag |-> "InvalidHexCharacter", value |-> <<>>, c |-> ch, index |-> idx]
OddLength == [tag |-> "OddLength", value |-> <<>>, c |-> 0, index |-> 0]
InvalidStringLength == [tag |-> "InvalidStringLength", value |-> <<>>, c |-> 0, index |-> 0]
NoResult == [tag |-> "NoResult", value |-> <<>>, c |-> 0, index |-> 0]

----------------------------------------------------------------------------
(* u8 arithmetic *)

Shr4(b) == b \div 16
And0xf(b) == b % 16
Shl3(b) == (b * 8) % 256
Shl4(b) == (b * 16) % 256

RECURSIVE BitOr(_, _)
BitOr(a, b) ==
    IF a = 0 THEN b
    ELSE IF b = 0 THEN a
    ELSE (IF a % 2 = 1 \/ b % 2 = 1 THEN 1 ELSE 0) + 2 * BitOr(a \div 2, b \div 2)

\* the bytes of a String whose chars are code points below 256 (UTF-8)
RECURSIVE as_ref(_)
as_ref(s) ==
    IF s = <<>> THEN <<>>
    ELSE LET ch == Head(s)
         IN  (IF ch < 128 THEN <<ch>> ELSE <<192 + (ch \div 64), 128 + (ch % 64)>>)
                 \o as_ref(Tail(s))

----------------------------------------------------------------------------
(* Encoding *)

\* b"0123456789abcdef"
HEX_CHARS_LOWER == <<48, 49, 50, 51, 52, 53, 54, 55, 56, 57, 97, 98, 99, 100, 101, 102>>
\* b"0123456789ABCDEF"
HEX_CHARS_UPPER == <<48, 49, 50, 51, 52, 53, 54, 55, 56, 57, 65, 66, 67, 68, 69, 70>>

BytesToHexChars_new(inner, table) ==
    [inner |-> inner, table |-> table, next |-> None]

NoIter == BytesToHexChars_new(<<>>, <<>>)

\* next(&mut self): the item returned and the struct afterwards
BytesToHexChars_next_swapped(self) ==
    IF self.next # None
    THEN [item |-> self.next, self |-> [self EXCEPT !.next = None]]
    ELSE IF self.inner = <<>>
    THEN [item |-> None, self |-> self]
    ELSE LET byte == Head(self.inner)
             current == self.table[And0xf(byte) + 1]
         IN  [item |-> Some(current),
              self |-> [inner |-> Tail(self.inner),
                        table |-> self.table,
                        next  |-> Some(self.table[Shr4(byte) + 1])]]

BytesToHexChars_next(self) ==
    IF self.next # None
    THEN [item |-> self.next, self |-> [self EXCEPT !.next = None]]
    ELSE IF self.inner = <<>>
    THEN [item |-> None, self |-> self]
    ELSE LET byte == Head(self.inner)
             current == self.table[Shr4(byte) + 1]
         IN  [item |-> Some(current),
              self |-> [inner |-> Tail(self.inner),
                        table |-> self.table,
                        next  |-> Some(self.table[And0xf(byte) + 1])]]

BytesToHexChars_len_no_pending(self) ==
    Len(self.inner) * 2

BytesToHexChars_len(self) ==
    LET length == Len(self.inner) * 2
    IN  IF self.next # None THEN length + 1 ELSE length

size_hint(self) ==
    LET length == BytesToHexChars_len(self)
    IN  <<length, Some(length)>>

\* Iterator::collect::<String>(): next() until it returns None
RECURSIVE collect(_)
collect(self) ==
    LET r == BytesToHexChars_next(self)
    IN  IF r.item = None THEN <<>> ELSE <<r.item[1]>> \o collect(r.self)

encode_to_iter(table, source) == collect(BytesToHexChars_new(source, table))

encode_hex(self) == encode_to_iter(HEX_CHARS_LOWER, self)
encode_hex_upper(self) == encode_to_iter(HEX_CHARS_UPPER, self)

encode(d) == encode_hex(d)
encode_upper(d) == encode_hex_upper(d)

----------------------------------------------------------------------------
(* Decoding *)

val_upper_off(ch, idx) ==
    IF ch \in 65..70 THEN Ok(ch - 65)
    ELSE IF ch \in 97..102 THEN Ok(ch - 97 + 10)
    ELSE IF ch \in 48..57 THEN Ok(ch - 48)
    ELSE InvalidHexCharacter(ch, idx)

val_no_upper(ch, idx) ==
    IF ch \in 97..102 THEN Ok(ch - 97 + 10)
    ELSE IF ch \in 48..57 THEN Ok(ch - 48)
    ELSE InvalidHexCharacter(ch, idx)

val(ch, idx) ==
    IF ch \in 65..70 THEN Ok(ch - 65 + 10)
    ELSE IF ch \in 97..102 THEN Ok(ch - 97 + 10)
    ELSE IF ch \in 48..57 THEN Ok(ch - 48)
    ELSE InvalidHexCharacter(ch, idx)

\* |(i, pair)| Ok(val(pair[0], 2 * i)? << 4 | val(pair[1], 2 * i + 1)?)
from_hex_pair_low_first(i, pair) ==
    LET hi == val(pair[1], 2 * i)
        lo == val(pair[2], 2 * i + 1)
    IN  IF lo.tag # "Ok" THEN lo
        ELSE IF hi.tag # "Ok" THEN hi
        ELSE Ok(BitOr(Shl4(hi.value), lo.value))

from_hex_pair(i, pair) ==
    LET hi == val(pair[1], 2 * i)
    IN  IF hi.tag # "Ok" THEN hi
        ELSE LET lo == val(pair[2], 2 * i + 1)
             IN  IF lo.tag # "Ok" THEN lo
                 ELSE Ok(BitOr(Shl4(hi.value), lo.value))

\* hex.chunks(2).enumerate().map(..).collect::<Result<Vec<u8>, _>>(), from chunk i on
RECURSIVE from_hex_chunks(_, _)
from_hex_chunks(h, i) ==
    IF 2 * i >= Len(h) THEN Ok(<<>>)
    ELSE LET r == from_hex_pair(i, SubSeq(h, 2 * i + 1, 2 * i + 2))
         IN  IF r.tag # "Ok" THEN r
             ELSE LET rest == from_hex_chunks(h, i + 1)
                  IN  IF rest.tag # "Ok" THEN rest
                      ELSE Ok(<<r.value>> \o rest.value)

Vec_from_hex(h) ==
    IF Len(h) % 2 # 0 THEN OddLength
    ELSE from_hex_chunks(h, 0)

decode(d) == Vec_from_hex(d)

\* val(data[2 * i], 2 * i)? << 4 | val(data[2 * i + 1], 2 * i + 1)?
slice_byte(d, i) ==
    LET hi == val(d[2 * i + 1], 2 * i)
    IN  IF hi.tag # "Ok" THEN hi
        ELSE LET lo == val(d[2 * i + 2], 2 * i + 1)
             IN  IF lo.tag # "Ok" THEN lo
                 ELSE Ok(BitOr(Shl4(hi.value), lo.value))

\* the loop of decode_to_slice from index i on: the result and the buffer
RECURSIVE decode_to_slice_loop_clobber(_, _, _)
decode_to_slice_loop_clobber(d, o, i) ==
    IF i >= Len(o) THEN [result |-> Ok(<<>>), out |-> o]
    ELSE LET r == slice_byte(d, i)
         IN  IF r.tag # "Ok" THEN [result |-> r, out |-> [o EXCEPT ![i + 1] = 0]]
             ELSE decode_to_slice_loop_clobber(d, [o EXCEPT ![i + 1] = r.value], i + 1)

RECURSIVE decode_to_slice_loop(_, _, _)
decode_to_slice_loop(d, o, i) ==
    IF i >= Len(o) THEN [result |-> Ok(<<>>), out |-> o]
    ELSE LET r == slice_byte(d, i)
         IN  IF r.tag # "Ok" THEN [result |-> r, out |-> o]
             ELSE decode_to_slice_loop(d, [o EXCEPT ![i + 1] = r.value], i + 1)

decode_to_slice_size_first(d, o) ==
    IF Len(d) \div 2 # Len(o) THEN [result |-> InvalidStringLength, out |-> o]
    ELSE IF Len(d) % 2 # 0 THEN [result |-> OddLength, out |-> o]
    ELSE decode_to_slice_loop(d, o, 0)

decode_to_slice_times_two(d, o) ==
    IF Len(d) % 2 # 0 THEN [result |-> OddLength, out |-> o]
    ELSE IF Len(d) * 2 # Len(o) THEN [result |-> InvalidStringLength, out |-> o]
    ELSE [result |-> Ok(<<>>), out |-> o]

decode_to_slice_chars_first(d, o) ==
    IF Len(d) % 2 # 0 THEN [result |-> OddLength, out |-> o]
    ELSE LET v == Vec_from_hex(d)
         IN  IF v.tag # "Ok" THEN [result |-> v, out |-> o]
             ELSE IF Len(d) \div 2 # Len(o)
             THEN [result |-> InvalidStringLength, out |-> o]
             ELSE decode_to_slice_loop(d, o, 0)

decode_to_slice(d, o) ==
    IF Len(d) % 2 # 0 THEN [result |-> OddLength, out |-> o]
    ELSE IF Len(d) \div 2 # Len(o) THEN [result |-> InvalidStringLength, out |-> o]
    ELSE decode_to_slice_loop(d, o, 0)

\* <[u8; $len] as FromHex>::from_hex
array_from_hex(len, h) ==
    LET zeroed == [k \in 1..len |-> 0]
        r == decode_to_slice(h, zeroed)
    IN  IF r.result.tag # "Ok" THEN r.result ELSE Ok(r.out)

----------------------------------------------------------------------------
(* The calls.  Init is a caller about to make one call with its arguments  *)
(* in place; every action is one call (or one step of the producer).       *)

Init ==
    /\ text = None /\ result = NoResult /\ iter = NoIter /\ calls = 0
    /\ item = None /\ yielded = <<>>
    /\ \/ /\ pc \in {"encode", "encode_upper", "iter_lower", "iter_upper"}
          /\ data \in DataInputs
          /\ hex = <<>> /\ out = <<>> /\ out0 = <<>> /\ arrayLen = 0
       \/ /\ pc = "decode"
          /\ hex \in TextInputs
          /\ data = <<>> /\ out = <<>> /\ out0 = <<>> /\ arrayLen = 0
       \/ /\ pc = "decode_to_slice"
          /\ hex \in TextInputs
          /\ out \in BufInputs /\ out0 = out
          /\ data = <<>> /\ arrayLen = 0
       \/ /\ pc = "from_hex_array"
          /\ hex \in TextInputs
          /\ arrayLen \in ArrayLens
          /\ data = <<>> /\ out = <<>> /\ out0 = <<>>

Encode ==
    /\ pc = "encode"
    /\ text' = Some(encode(data))
    /\ pc' = "encoded"
    /\ UNCHANGED <<data, hex, out, out0, arrayLen, result, iter, calls, item, yielded>>

EncodeUpper ==
    /\ pc = "encode_upper"
    /\ text' = Some(encode_upper(data))
    /\ pc' = "encoded_upper"
    /\ UNCHANGED <<data, hex, out, out0, arrayLen, result, iter, calls, item, yielded>>

\* decode(encode(b)) / decode(encode_upper(b)): the String goes in as bytes
DecodeEncoded ==
    /\ pc \in {"encoded", "encoded_upper"}
    /\ hex' = as_ref(text[1])
    /\ result' = decode(hex')
    /\ pc' = IF pc = "encoded" THEN "round_trip" ELSE "round_trip_upper"
    /\ UNCHANGED <<data, text, out, out0, arrayLen, iter, calls, item, yielded>>

Decode ==
    /\ pc = "decode"
    /\ result' = decode(hex)
    /\ pc' = "decoded"
    /\ UNCHANGED <<data, text, hex, out, out0, arrayLen, iter, calls, item, yielded>>

DecodeToSlice ==
    /\ pc = "decode_to_slice"
    /\ LET r == decode_to_slice(hex, out)
       IN  /\ result' = r.result
           /\ out' = r.out
    /\ pc' = "slice_done"
    /\ UNCHANGED <<data, text, hex, out0, arrayLen, iter, calls, item, yielded>>

FromHexArray ==
    /\ pc = "from_hex_array"
    /\ result' = array_from_hex(arrayLen, hex)
    /\ pc' = "array_done"
    /\ UNCHANGED <<data, text, hex, out, out0, arrayLen, iter, calls, item, yielded>>

IterNew ==
    /\ pc \in {"iter_lower", "iter_upper"}
    /\ iter' = BytesToHexChars_new(data,
                    IF pc = "iter_lower" THEN HEX_CHARS_LOWER ELSE HEX_CHARS_UPPER)
    /\ pc' = "iterating"
    /\ UNCHANGED <<data, text, hex, out, out0, arrayLen, result, calls, item, yielded>>

IterNext ==
    /\ pc = "iterating"
    /\ calls < 2 * Len(data) + MaxExtraCalls
    /\ LET r == BytesToHexChars_next(iter)
       IN  /\ iter' = r.self
           /\ item' = r.item
           /\ yielded' = yielded \o r.item
    /\ calls' = calls + 1
    /\ UNCHANGED <<pc, data, text, hex, out, out0, arrayLen, result>>

Next ==
    \/ Encode
    \/ EncodeUpper
    \/ DecodeEncoded
    \/ Decode
    \/ DecodeToSlice
    \/ FromHexArray
    \/ IterNew
    \/ IterNext

Spec == Init /\ [][Next]_vars

----------------------------------------------------------------------------
(* What the properties are stated with *)

IsHexDigit(ch) == ch \in (48..57) \cup (65..70) \cup (97..102)
IsLetterDigit(ch) == ch \in (65..70) \cup (97..102)

\* the character of "0123456789abcdef" / "0123456789ABCDEF" for n in 0..15
DigitChar(n, upper) ==
    IF n < 10 THEN 48 + n ELSE IF upper THEN 55 + n ELSE 87 + n

\* '0'..'9' -> 0..9, 'a'..'f' -> 10..15, 'A'..'F' -> 10..15
Nibble(ch) == CHOOSE n \in 0..15 : ch \in {DigitChar(n, TRUE), DigitChar(n, FALSE)}

\* the byte of pair j (zero-based) of a text of hex digits
PairValue(h, j) == Nibble(h[2 * j + 1]) * 16 + Nibble(h[2 * j + 2])

AllHexDigits(h) == \A k \in 1..Len(h) : IsHexDigit(h[k])
EvenLength(h) == Len(h) % 2 = 0

\* zero-based positions of h that hold no hex digit
InvalidPositions(h) == {q \in 0..(Len(h) - 1) : ~IsHexDigit(h[q + 1])}
FirstInvalid(h) == CHOOSE q \in InvalidPositions(h) : \A r \in InvalidPositions(h) : q <= r

\* h with the case of the letters at the (one-based) positions of S changed
ToggleCase(h, S) ==
    [k \in 1..Len(h) |->
        IF k \in S /\ IsLetterDigit(h[k])
        THEN (IF h[k] >= 97 THEN h[k] - 32 ELSE h[k] + 32)
        ELSE h[k]]

Max(a, b) == IF a >= b THEN a ELSE b

\* the length of the fixed-size destination of the call that has returned
DestLen == IF pc = "array_done" THEN arrayLen ELSE Len(out0)
\* the destination's bytes after a successful call
DestBytes == IF pc = "array_done" THEN result.value ELSE out

----------------------------------------------------------------------------
(* C1: round trip.  For every byte sequence b, decode(encode(b)) and       *)
(* decode(encode_upper(b)) return Ok(b).                                   *)
C1_RoundTrip ==
    pc \in {"round_trip", "round_trip_upper"} =>
        result = Ok(data)

C1_Witness ==
    /\ pc = "round_trip_upper"
    /\ data = <<171, 255>>
    /\ hex = <<65, 66, 70, 70>>
    /\ result.tag = "Ok" /\ result.value = <<171, 255>>

(* C2: encode / encode_upper return a text of length 2 * len(b) whose      *)
(* characters 2i and 2i+1 are the table's characters for b[i] >> 4 and     *)
(* b[i] & 0xF; encode([1,2,3,15,16]) = "0102030f10" and encode([]) = "".   *)
C2_EncodeLayout ==
    pc \in {"encoded", "encoded_upper"} =>
        /\ text # None
        /\ Len(text[1]) = 2 * Len(data)
        /\ \A i \in 0..(Len(data) - 1) :
              /\ text[1][2 * i + 1] = DigitChar(data[i + 1] \div 16, pc = "encoded_upper")
              /\ text[1][2 * i + 2] = DigitChar(data[i + 1] % 16, pc = "encoded_upper")
        /\ (pc = "encoded" /\ data = <<1, 2, 3, 15, 16>>) =>
              text[1] = <<48, 49, 48, 50, 48, 51, 48, 102, 49, 48>>
        /\ data = <<>> => text[1] = <<>>

C2_Witness ==
    /\ pc = "encoded_upper"
    /\ data = <<171, 16>>
    /\ text = Some(<<65, 66, 49, 48>>)

(* C3: an even-length text of hex digits decodes to len/2 bytes, byte i    *)
(* being (nibble(text[2i]) << 4) | nibble(text[2i+1]); "" decodes to the   *)
(* empty byte sequence.                                                    *)
C3_DecodeValid ==
    (pc = "decoded" /\ EvenLength(hex) /\ AllHexDigits(hex)) =>
        /\ result.tag = "Ok"
        /\ Len(result.value) = Len(hex) \div 2
        /\ \A i \in 0..(Len(result.value) - 1) : result.value[i + 1] = PairValue(hex, i)
        /\ hex = <<>> => result = Ok(<<>>)

C3_Witness ==
    /\ pc = "decoded"
    /\ hex = <<97, 70, 57, 48>>
    /\ result = Ok(<<175, 144>>)

(* C4: an odd-length text makes decode, decode_to_slice and the array      *)
(* from_hex return OddLength, whatever its characters and whatever the     *)
(* size of the destination.                                                *)
C4_OddLengthFirst ==
    (pc \in {"decoded", "slice_done", "array_done"} /\ ~EvenLength(hex)) =>
        result = OddLength

C4_Witness ==
    /\ pc = "slice_done"
    /\ Len(hex) = 3
    /\ ~AllHexDigits(hex)
    /\ Len(hex) \div 2 # Len(out0)
    /\ result = OddLength

(* C5: decode_to_slice and the array from_hex return InvalidStringLength   *)
(* for an even-length text whose len/2 differs from the destination's      *)
(* length, even when the text holds characters that are no hex digits;     *)
(* when len/2 is the destination's length and every character is a hex     *)
(* digit the call succeeds and the destination holds decode(text).         *)
C5_SizeMismatch ==
    (pc \in {"slice_done", "array_done"} /\ EvenLength(hex)) =>
        /\ Len(hex) \div 2 # DestLen => result = InvalidStringLength
        /\ (Len(hex) \div 2 = DestLen /\ AllHexDigits(hex)) =>
              /\ result.tag = "Ok"
              /\ decode(hex).tag = "Ok"
              /\ DestBytes = decode(hex).value

C5_Witness ==
    /\ pc = "slice_done"
    /\ Len(hex) = 4 /\ Len(out0) = 1
    /\ ~AllHexDigits(hex)
    /\ result = InvalidStringLength

C5_WitnessOk ==
    /\ pc = "array_done"
    /\ arrayLen = 6
    /\ result = Ok(<<102, 111, 111, 98, 97, 114>>)

(* C6: for an even-length text holding a character that is no hex digit    *)
(* (and, for decode_to_slice, of the buffer's size) decode and             *)
(* decode_to_slice return InvalidHexCharacter with the smallest zero-based *)
(* position of such a character and the character at that position.        *)
C6_FirstError ==
    (/\ pc \in {"decoded", "slice_done"}
     /\ EvenLength(hex)
     /\ ~AllHexDigits(hex)
     /\ pc = "slice_done" => Len(hex) \div 2 = Len(out0)) =>
        result = InvalidHexCharacter(hex[FirstInvalid(hex) + 1], FirstInvalid(hex))

C6_Witness ==
    /\ pc = "decoded"
    /\ hex = <<48, 103, 32, 103>>
    /\ result = InvalidHexCharacter(103, 1)

(* C7: changing the case of any subset of the letter digits of a valid     *)
(* even-length hex text leaves what decode returns unchanged.              *)
C7_CaseInsensitive ==
    (pc = "decoded" /\ EvenLength(hex) /\ AllHexDigits(hex)) =>
        \A S \in SUBSET {k \in 1..Len(hex) : IsLetterDigit(hex[k])} :
            /\ decode(ToggleCase(hex, S)).tag = "Ok"
            /\ decode(ToggleCase(hex, S)) = result

C7_Witness ==
    /\ pc = "decoded"
    /\ hex = <<102, 57, 66, 52, 67, 97>>
    /\ result = Ok(<<249, 180, 202>>)

(* C8: after k next() calls on a producer over n bytes, len() and both     *)
(* bounds of size_hint() are 2 * (bytes not yet consumed) + (1 if a low    *)
(* nibble character is pending), which is max(2n - k, 0) and the number of *)
(* characters further next() calls still yield before returning None.      *)
C8_RemainingLength ==
    pc = "iterating" =>
        LET length == BytesToHexChars_len(iter)
        IN  /\ length = 2 * Len(iter.inner) + (IF iter.next = None THEN 0 ELSE 1)
            /\ length = Max(2 * Len(data) - calls, 0)
            /\ length = Len(collect(iter))
            /\ size_hint(iter) = <<length, Some(length)>>
            /\ Len(yielded) + length = 2 * Len(data)
            /\ calls > 2 * Len(data) => item = None
            /\ calls \in 1..(2 * Len(data)) => item # None

C8_Witness ==
    /\ pc = "iterating"
    /\ Len(data) = 2
    /\ calls = 3
    /\ iter.next # None
    /\ BytesToHexChars_len(iter) = 1

C10_Frame ==
    pc = "slice_done" =>
        /\ result \in {OddLength, InvalidStringLength} => out = out0
        /\ result.tag = "InvalidHexCharacter" =>
              /\ Len(out) = Len(out0)
              /\ \A j \in 0..(Len(out) - 1) :
                    IF j < result.index \div 2
                    THEN out[j + 1] = PairValue(hex, j)
                    ELSE out[j + 1] = out0[j + 1]

C10_Witness ==
    /\ pc = "slice_done"
    /\ hex = <<70, 97, 48, 103>>
    /\ out0 = <<170, 170>>
    /\ result = InvalidHexCharacter(103, 3)
    /\ out = <<250, 170>>

====
